---- MODULE Spec2Model ----
(***************************************************************************)
(* Model of the scalar gradient-descent tracer of                          *)
(* 4-week4/1-logistic_regression.ipynb (gradient_descent_update).          *)
(*                                                                         *)
(* Numbers are exact decimals (sign, digit string, number of fractional    *)
(* digits), the arithmetic Python performs on int / Fraction / Decimal     *)
(* operands; the binary rounding of float operands is not modelled.        *)
(* Digit strings are little-endian in base 10^4 so that no intermediate    *)
(* exceeds the range of a machine integer.                                 *)
(***************************************************************************)
EXTENDS Integers, Sequences, FiniteSets, TLC

---------------------------------------------------------------------------
(* Natural numbers as little-endian digit sequences, <<>> being 0.         *)

Base == 10000

RECURSIVE NatOfInt(_)
NatOfInt(n) ==
    IF n = 0 THEN <<>> ELSE <<n % Base>> \o NatOfInt(n \div Base)

RECURSIVE StripHigh(_)
StripHigh(a) ==
    IF a = <<>> THEN <<>>
    ELSE IF a[Len(a)] = 0 THEN StripHigh(SubSeq(a, 1, Len(a) - 1))
    ELSE a

RECURSIVE NatAddC(_, _, _)
NatAddC(a, b, c) ==
    IF a = <<>> /\ b = <<>> THEN (IF c = 0 THEN <<>> ELSE <<c>>)
    ELSE LET da == IF a = <<>> THEN 0 ELSE Head(a)
             db == IF b = <<>> THEN 0 ELSE Head(b)
             s  == da + db + c
         IN  <<s % Base>> \o NatAddC(IF a = <<>> THEN <<>> ELSE Tail(a),
                                   IF b = <<>> THEN <<>> ELSE Tail(b),
                                   s \div Base)

NatAdd(a, b) == NatAddC(a, b, 0)

\* a - b for a >= b, digit by digit with borrow c
RECURSIVE NatSubC(_, _, _)
NatSubC(a, b, c) ==
    IF a = <<>> THEN <<>>
    ELSE LET db == IF b = <<>> THEN 0 ELSE Head(b)
             d  == Head(a) - db - c
         IN  <<IF d < 0 THEN d + Base ELSE d>>
                 \o NatSubC(Tail(a), IF b = <<>> THEN <<>> ELSE Tail(b),
                            IF d < 0 THEN 1 ELSE 0)

NatSub(a, b) == StripHigh(NatSubC(a, b, 0))

\* -1, 0, 1 as a < b, a = b, a > b
RECURSIVE NatCmp(_, _)
NatCmp(a, b) ==
    IF Len(a) # Len(b) THEN (IF Len(a) < Len(b) THEN -1 ELSE 1)
    ELSE IF a = <<>> THEN 0
    ELSE IF a[Len(a)] # b[Len(b)] THEN (IF a[Len(a)] < b[Len(b)] THEN -1 ELSE 1)
    ELSE NatCmp(SubSeq(a, 1, Len(a) - 1), SubSeq(b, 1, Len(b) - 1))

RECURSIVE NatMulDigitC(_, _, _)
NatMulDigitC(a, d, c) ==
    IF a = <<>> THEN (IF c = 0 THEN <<>> ELSE <<c>>)
    ELSE LET p == Head(a) * d + c
         IN  <<p % Base>> \o NatMulDigitC(Tail(a), d, p \div Base)

NatMulDigit(a, d) == IF d = 0 THEN <<>> ELSE NatMulDigitC(a, d, 0)

\* a * Base^n
RECURSIVE NatShift(_, _)
NatShift(a, n) ==
    IF a = <<>> \/ n = 0 THEN a ELSE NatShift(<<0>> \o a, n - 1)

RECURSIVE NatMul(_, _)
NatMul(a, b) ==
    IF a = <<>> \/ b = <<>> THEN <<>>
    ELSE NatAdd(NatMulDigit(a, Head(b)), NatShift(NatMul(a, Tail(b)), 1))

---------------------------------------------------------------------------
(* Signed decimals: [sgn |-> -1|0|1, mag |-> digits, exp |-> number of     *)
(* fractional digits], digits in base 10^4, normalised: no trailing        *)
(* fractional zero digit, zero is unique.  The infinities and NaN of float *)
(* operands are added as three more values.                                *)

Zero == [sgn |-> 0, mag |-> <<>>, exp |-> 0]

RECURSIVE Norm(_)
Norm(v) ==
    IF v.mag = <<>> \/ v.sgn = 0 THEN Zero
    ELSE IF v.exp > 0 /\ Head(v.mag) = 0
         THEN Norm([v EXCEPT !.mag = Tail(v.mag), !.exp = v.exp - 1])
    ELSE v

\* 10^k for k in 0..3
Pow10(k) == CASE k = 0 -> 1 [] k = 1 -> 10 [] k = 2 -> 100 [] k = 3 -> 1000

\* the decimal n * 10^-e of a machine integer n
Dec(n, e) ==
    LET q == (e + 3) \div 4
        m == (IF n < 0 THEN -n ELSE n) * Pow10(4 * q - e)
    IN  Norm([sgn |-> IF n < 0 THEN -1 ELSE IF n = 0 THEN 0 ELSE 1,
              mag |-> NatOfInt(m),
              exp |-> q])

\* The float values that are no numbers of the line: exp = -1 marks them,
\* sgn tells +inf (1), -inf (-1) and NaN (0).
Inf == [sgn |-> 1, mag |-> <<>>, exp |-> -1]

NegInf == [sgn |-> -1, mag |-> <<>>, exp |-> -1]

NaN == [sgn |-> 0, mag |-> <<>>, exp |-> -1]

IsFinite(v) == v.exp >= 0

IsNaN(v) == v = NaN

Neg(v) == [v EXCEPT !.sgn = -v.sgn]

Abs(v) == [v EXCEPT !.sgn = IF v.sgn = 0 THEN 0 ELSE 1]

Max(m, n) == IF m >= n THEN m ELSE n

\* the digits of v at e fractional digits, e >= v.exp
Scaled(v, e) == NatShift(v.mag, e - v.exp)

\* a sum of infinities of opposite sign that cancels
AddNonFiniteCancel(a, b) ==
    IF IsNaN(a) \/ IsNaN(b) THEN NaN
    ELSE IF IsFinite(a) THEN b
    ELSE IF IsFinite(b) THEN a
    ELSE IF a.sgn = b.sgn THEN a
    ELSE Zero

\* a + b, one of them not finite
AddNonFinite(a, b) ==
    IF IsNaN(a) \/ IsNaN(b) THEN NaN
    ELSE IF IsFinite(a) THEN b
    ELSE IF IsFinite(b) THEN a
    ELSE IF a.sgn = b.sgn THEN a
    ELSE NaN

\* a * b, one of them not finite
MulNonFinite(a, b) ==
    IF IsNaN(a) \/ IsNaN(b) THEN NaN
    ELSE IF a.sgn * b.sgn = 0 THEN NaN
    ELSE IF a.sgn * b.sgn > 0 THEN Inf
    ELSE NegInf

Add(a, b) ==
    LET e  == Max(a.exp, b.exp)
        ma == Scaled(a, e)
        mb == Scaled(b, e)
        c  == NatCmp(ma, mb)
    IN  IF ~IsFinite(a) \/ ~IsFinite(b) THEN AddNonFinite(a, b)
        ELSE IF a.sgn = 0 THEN b
        ELSE IF b.sgn = 0 THEN a
        ELSE IF a.sgn = b.sgn
             THEN Norm([sgn |-> a.sgn, mag |-> NatAdd(ma, mb), exp |-> e])
        ELSE IF c = 0 THEN Zero
        ELSE IF c > 0
             THEN Norm([sgn |-> a.sgn, mag |-> NatSub(ma, mb), exp |-> e])
        ELSE Norm([sgn |-> b.sgn, mag |-> NatSub(mb, ma), exp |-> e])

Sub(a, b) == Add(a, Neg(b))

Mul(a, b) ==
    IF ~IsFinite(a) \/ ~IsFinite(b) THEN MulNonFinite(a, b)
    ELSE Norm([sgn |-> a.sgn * b.sgn, mag |-> NatMul(a.mag, b.mag),
               exp |-> a.exp + b.exp])

\* a < b
Less(a, b) == Sub(a, b).sgn = -1

Leq(a, b) == Sub(a, b).sgn # 1

RECURSIVE Pow(_, _)
Pow(a, n) == IF n = 0 THEN Dec(1, 0) ELSE Mul(Pow(a, n - 1), a)

---------------------------------------------------------------------------
(* Inputs of a call.                                                       *)

MaxSteps == 10
MaxNegSteps == 2

\* steps=10 in both signatures
DefaultSteps == 10

StartValues == {Dec(8, 0), Dec(-8, 0), Dec(0, 0), Dec(-25, 1)}

LearningRates ==
    {Dec(0, 0), Dec(1, 2), Dec(1, 1), Dec(5, 1), Dec(95, 2), Dec(11, 1)}

StepCounts == (0 - MaxNegSteps)..MaxSteps

\* faulty variant: the coefficient 0.1 is lost
ShallowUnitSlope(v) == v

\* def shallow_gradient(x): return 0.1 * x
shallow_gradient(v) == Mul(Dec(1, 1), v)

\* def steep_gradient(x): return 2 * x
steep_gradient(v) == Mul(Dec(2, 0), v)

\* caller-supplied gradient functions: the two of the notebook, a linear
\* one with a negative slope and the gradient of (x - 3)^2
GradientFuncs == {"shallow_gradient", "steep_gradient", "neg_gradient",
                  "shifted_gradient"}

\* gradient_func(x)
CallGradient(g, v) ==
    CASE g = "shallow_gradient" -> shallow_gradient(v)
      [] g = "steep_gradient"   -> steep_gradient(v)
      [] g = "neg_gradient"     -> Mul(Dec(-1, 0), v)
      [] g = "shifted_gradient" -> Sub(Mul(Dec(2, 0), v), Dec(6, 0))

---------------------------------------------------------------------------
(* State: which definition the name gradient_descent_update is bound to,   *)
(* the objects of the interpreter (heap; a name holds a reference into     *)
(* it), the caller's name start_point, the frame of the running call and   *)
(* the array the last call returned.                                       *)

VARIABLES
    defn,           \* "none" | "general" (cell 6) | "quadratic" (cell 8)
    pc,             \* "idle" | "loop" | "done"
    heap,           \* sequence of number objects, a reference is an index
    start_point,    \* the caller's name for the object passed as start
    start0,         \* the value of that object when the call was entered
    start,          \* parameter: reference
    learning_rate,  \* parameter
    gradient_func,  \* parameter ("none" in the quadratic definition)
    steps,          \* parameter
    x,              \* local: reference
    path,           \* local: list of references
    it,             \* items taken from range(steps)
    grad_calls,     \* evaluations of gradient_func in this call
    result,         \* the returned array, <<>> while there is none
    memo,           \* an earlier call kept by the caller: arguments, result
    ns,             \* the kernel namespace: name -> what it is bound to
    cell_result,    \* how the last cell run ended
    order           \* cells run so far if run top to bottom, else -1

vars == <<defn, pc, heap, start_point, start0, start, learning_rate,
          gradient_func, steps, x, path, it, grad_calls, result,
          memo, ns, cell_result, order>>

frame == <<heap, start_point, start0, start, learning_rate, gradient_func,
           steps, x, path, it, grad_calls, result>>

\* what the notebook session holds besides the running call
session == <<memo, ns, cell_result, order>>

\* no call kept
NoMemo ==
    [start |-> Zero, learning_rate |-> Zero, gradient_func |-> "none",
     steps |-> 0, result |-> <<>>, between |-> {}]

\* the names of the notebook that one cell binds and another reads
Names == {"np", "plt", "iris", "LogisticRegression", "train_test_split",
          "X", "X_train", "log_reg", "decision_boundary", "softmax_reg"}

\* a fresh kernel
FreshNamespace == [n \in Names |-> "unbound"]

\* no cell has run
NoCell == [cell |-> 0, outcome |-> "none"]

Init ==
    /\ memo = NoMemo
    /\ ns = FreshNamespace
    /\ cell_result = NoCell
    /\ order = 0
    /\ defn = "none"
    /\ pc = "idle"
    /\ heap = <<>>
    /\ start_point = 0
    /\ start0 = Zero
    /\ start = 0
    /\ learning_rate = Zero
    /\ gradient_func = "none"
    /\ steps = 0
    /\ x = 0
    /\ path = <<>>
    /\ it = 0
    /\ grad_calls = 0
    /\ result = <<>>

\* faulty variants of the loop bound: one pass too many, a first pass always
RangeInclusive(i, n) == i <= n

RangeAtLeastOnce(i, n) == i < n \/ i = 0

\* a range that counts up to the magnitude of its bound
RangeMagnitude(i, n) == i < (IF n < 0 THEN 0 - n ELSE n)

\* `for _ in range(steps)`: range(steps) has a next item after i of them
RangeHasNext(i, n) == i < n

\* faulty variant: the learning rate is dropped
ScaleIgnoreRate(lr, grad) == grad

\* learning_rate * grad
Scale(lr, grad) == Mul(lr, grad)

\* faulty variants: the object is updated in place (as a mutable array
\* would be), the step is added instead of subtracted
ISubInPlace(h, ref, v) ==
    [heap |-> [h EXCEPT ![ref] = Sub(h[ref], v)], ref |-> ref]

ISubAdd(h, ref, v) ==
    [heap |-> Append(h, Add(h[ref], v)), ref |-> Len(h) + 1]

\* `ref -= v` on a number object: numbers are immutable, so the name is
\* rebound to a new object and the old one is left as it was
ISub(h, ref, v) ==
    [heap |-> Append(h, Sub(h[ref], v)), ref |-> Len(h) + 1]

\* faulty variant: path.insert(0, x)
PathPrepend(p, ref) == <<ref>> \o p

\* path.append(x)
PathAppend(p, ref) == Append(p, ref)

\* np.array(path): a new array holding the values of the listed objects
NpArray(h, p) == [j \in 1..Len(p) |-> h[p[j]]]

\* the cell that defines the general tracer is run
DefineGeneral ==
    /\ pc \in {"idle", "done"}
    /\ defn' = "general"
    /\ UNCHANGED <<pc, frame, session>>

\* the cell that redefines the tracer over the fixed quadratic is run
DefineQuadratic ==
    /\ pc \in {"idle", "done"}
    /\ defn' = "quadratic"
    /\ UNCHANGED <<pc, frame, session>>

\* a frame whose list outlives the call (a list kept as a default argument)
EnterKeepPath(s, lr, g, n) ==
    /\ heap' = Append(heap, s)
    /\ start_point' = Len(heap) + 1
    /\ start0' = s
    /\ start' = Len(heap) + 1
    /\ learning_rate' = lr
    /\ gradient_func' = g
    /\ steps' = n
    /\ x' = Len(heap) + 1
    /\ path' = Append(path, Len(heap) + 1)
    /\ it' = 0
    /\ grad_calls' = 0
    /\ result' = <<>>
    /\ pc' = "loop"
    /\ UNCHANGED <<defn, ns, cell_result, order>>

\* x = start; path = [start]
Enter(s, lr, g, n) ==
    /\ heap' = <<s>>
    /\ start_point' = 1
    /\ start0' = s
    /\ start' = 1
    /\ learning_rate' = lr
    /\ gradient_func' = g
    /\ steps' = n
    /\ x' = 1
    /\ path' = <<1>>
    /\ it' = 0
    /\ grad_calls' = 0
    /\ result' = <<>>
    /\ pc' = "loop"
    /\ UNCHANGED <<defn, ns, cell_result, order>>

\* gradient_descent_update(start, learning_rate, gradient_func, steps)
CallGeneral(s, lr, g, n) ==
    /\ pc \in {"idle", "done"}
    /\ defn = "general"
    /\ Enter(s, lr, g, n)
    /\ UNCHANGED memo

\* gradient_descent_update(start, learning_rate, steps)
CallQuadratic(s, lr, n) ==
    /\ pc \in {"idle", "done"}
    /\ defn = "quadratic"
    /\ Enter(s, lr, "none", n)
    /\ UNCHANGED memo

\* one pass of the loop of the general tracer
IterateGeneral ==
    /\ pc = "loop"
    /\ defn = "general"
    /\ RangeHasNext(it, steps)
    /\ LET grad == CallGradient(gradient_func, heap[x])
           upd  == ISub(heap, x, Scale(learning_rate, grad))
       IN  /\ heap' = upd.heap
           /\ x' = upd.ref
           /\ path' = PathAppend(path, upd.ref)
    /\ it' = it + 1
    /\ grad_calls' = grad_calls + 1
    /\ UNCHANGED <<defn, pc, start_point, start0, start, learning_rate,
                   gradient_func, steps, result, session>>

\* faulty variant: the derivative of x^2 taken as x
QuadraticGradientHalved(v) == v

\* grad = 2 * x  (derivative of x^2)
QuadraticGradient(v) == Mul(Dec(2, 0), v)

\* one pass of the loop of the quadratic tracer
IterateQuadratic ==
    /\ pc = "loop"
    /\ defn = "quadratic"
    /\ RangeHasNext(it, steps)
    /\ LET grad == QuadraticGradient(heap[x])
           upd  == ISub(heap, x, Scale(learning_rate, grad))
       IN  /\ heap' = upd.heap
           /\ x' = upd.ref
           /\ path' = PathAppend(path, upd.ref)
    /\ it' = it + 1
    /\ UNCHANGED <<defn, pc, start_point, start0, start, learning_rate,
                   gradient_func, steps, grad_calls, result, session>>

\* range(steps) is exhausted: return np.array(path)
Return ==
    /\ pc = "loop"
    /\ ~RangeHasNext(it, steps)
    /\ result' = NpArray(heap, path)
    /\ pc' = "done"
    /\ UNCHANGED <<defn, heap, start_point, start0, start, learning_rate,
                   gradient_func, steps, x, path, it, grad_calls, session>>

Next ==
    \/ DefineGeneral
    \/ DefineQuadratic
    \/ \E s \in StartValues, lr \in LearningRates, g \in GradientFuncs,
          n \in StepCounts : CallGeneral(s, lr, g, n)
    \/ \E s \in StartValues, lr \in LearningRates,
          n \in StepCounts \cup {DefaultSteps} : CallQuadratic(s, lr, n)
    \/ IterateGeneral
    \/ IterateQuadratic
    \/ Return

Spec == Init /\ [][Next]_vars

---------------------------------------------------------------------------
(* One long call of the general tracer, run to its end: the setting of the *)
(* convergence property.  The slowest contraction among LimitRates with    *)
(* steep_gradient is 0.5 per step, and 0.5^4 < 1/10: 4 steps win one       *)
(* decimal digit, and 4 more bring any start below 10 under 1.             *)

TolDigits == 2

Horizon == 4 * (TolDigits + 1)

\* r*k = 0.5, 0.8, 1, 1.5 (contracting), 2 and 2.2 (not contracting)
LimitRates ==
    {Dec(25, 2), Dec(4, 1), Dec(5, 1), Dec(75, 2), Dec(1, 0), Dec(11, 1)}

InitLimit ==
    /\ memo = NoMemo
    /\ ns = FreshNamespace
    /\ cell_result = NoCell
    /\ order = 0
    /\ defn = "general"
    /\ pc = "idle"
    /\ heap = <<>>
    /\ start_point = 0
    /\ start0 = Zero
    /\ start = 0
    /\ learning_rate = Zero
    /\ gradient_func = "none"
    /\ steps = 0
    /\ x = 0
    /\ path = <<>>
    /\ it = 0
    /\ grad_calls = 0
    /\ result = <<>>

\* path = gradient_descent_update(start_point, lr, steep_gradient, Horizon)
CallLimit(s, lr) ==
    /\ pc = "idle"
    /\ defn = "general"
    /\ Enter(s, lr, "steep_gradient", Horizon)
    /\ UNCHANGED memo

NextLimit ==
    \/ \E s \in StartValues, lr \in LimitRates : CallLimit(s, lr)
    \/ IterateGeneral
    \/ Return

SpecLimit == InitLimit /\ [][NextLimit]_vars

---------------------------------------------------------------------------
(* A session that calls the tracer again and again and keeps one returned  *)
(* array while later calls run, as the first demonstration keeps           *)
(* path_shallow while path_steep is computed.                              *)

MaxHistSteps == 2

HistStarts == {Dec(8, 0), Dec(-25, 1)}

HistRates == {Dec(1, 1), Dec(95, 2)}

HistFuncs == {"shallow_gradient", "steep_gradient"}

HistSteps == 0..MaxHistSteps

\* the arguments of the kept call are those of the call (s, lr, g, n)
SameArguments(m, s, lr, g, n) ==
    /\ m.start = s
    /\ m.learning_rate = lr
    /\ m.gradient_func = g
    /\ m.steps = n

\* the kept call sees another call start
Later(m, s, lr, g, n) ==
    IF m.result = <<>>
    THEN m
    ELSE [m EXCEPT !.between = @ \cup {IF SameArguments(m, s, lr, g, n)
                                       THEN "same" ELSE "other"}]

\* kept = gradient_descent_update(...)
Remember ==
    /\ pc = "done"
    /\ memo' = [start |-> start0, learning_rate |-> learning_rate,
                gradient_func |-> gradient_func, steps |-> steps,
                result |-> result, between |-> {}]
    /\ UNCHANGED <<defn, pc, frame, ns, cell_result, order>>

\* gradient_descent_update(s, lr, g, n) while an earlier result is kept
HistCallGeneral(s, lr, g, n) ==
    /\ pc \in {"idle", "done"}
    /\ defn = "general"
    /\ Enter(s, lr, g, n)
    /\ memo' = Later(memo, s, lr, g, n)

\* gradient_descent_update(s, lr, n) while an earlier result is kept
HistCallQuadratic(s, lr, n) ==
    /\ pc \in {"idle", "done"}
    /\ defn = "quadratic"
    /\ Enter(s, lr, "none", n)
    /\ memo' = Later(memo, s, lr, "none", n)

NextHist ==
    \/ DefineGeneral
    \/ DefineQuadratic
    \/ \E s \in HistStarts, lr \in HistRates, g \in HistFuncs, n \in HistSteps :
           HistCallGeneral(s, lr, g, n)
    \/ \E s \in HistStarts, lr \in HistRates, n \in HistSteps :
           HistCallQuadratic(s, lr, n)
    \/ IterateGeneral
    \/ IterateQuadratic
    \/ Return
    \/ Remember

SpecHist == Init /\ [][NextHist]_vars

---------------------------------------------------------------------------
(* The notebook as a whole: its code cells run in one kernel and share its *)
(* namespace.  A cell is a sequence of statements; a statement reads       *)
(* names (NameError when one is unbound), may reject what a name is bound  *)
(* to (an estimator fitted on another number of features, an array with    *)
(* too few columns) and binds names.  A cell that raises keeps what its    *)
(* earlier statements bound.  The calls of the tracer made by cells 6 and  *)
(* 8 are those of Spec; here they are steps that read no other name.       *)

\* the code cells, by their index in the notebook
CodeCells == {2, 6, 8, 11, 12, 13, 14, 15, 16, 17, 18, 19, 20, 23, 24, 25, 26}

\* the place of a code cell among the code cells, from 1
Position(c) == Cardinality({d \in CodeCells : d <= c})

Statement(reads, rejects, raises, binds, defines) ==
    [reads |-> reads, rejects |-> rejects, raises |-> raises,
     binds |-> binds, defines |-> defines]

\* import ... / from ... import ...
Import(names) == Statement({}, {}, "", {<<n, "bound">> : n \in names}, "")

\* def gradient_descent_update(...)
Def(d) == Statement({}, {}, "", {}, d)

\* an expression statement reading names
Use(names) == Statement(names, {}, "", {}, "")

\* name = expression reading names
Assign(reads, name, tag) == Statement(reads, {}, "", {<<name, tag>>}, "")

\* log_reg.predict_proba / predict on one-column input
OneFeature(names) ==
    Statement(names, {<<"log_reg", "cell20">>}, "ValueError", {}, "")

\* X[y == 2, 1]
SecondColumn(names) ==
    Statement(names, {<<"X", "cell16">>}, "IndexError", {}, "")

Cells ==
    [c \in CodeCells |->
       CASE c = 2  -> <<Import({"np", "plt"})>>
         [] c = 6  -> <<Import({"np", "plt"}), Def("general")>>
         [] c = 8  -> <<Def("quadratic"), Use({"np"}), Use({"plt"})>>
         [] c = 11 -> <<Assign({}, "iris", "bound")>>
         [] c \in {12, 13, 14, 15} -> <<Use({"iris"})>>
         [] c = 16 -> <<Import({"LogisticRegression", "train_test_split"}),
                        Assign({"iris"}, "X", "cell16"),
                        Assign({"train_test_split", "X"}, "X_train", "cell16"),
                        Assign({"LogisticRegression", "X_train"},
                               "log_reg", "cell16")>>
         [] c = 17 -> <<Use({"np"}),
                        OneFeature({"log_reg"}),
                        Assign({}, "decision_boundary", "bound"),
                        Use({"plt", "X_train"})>>
         [] c = 18 -> <<Use({"decision_boundary"})>>
         [] c = 19 -> <<OneFeature({"log_reg"})>>
         [] c = 20 -> <<Assign({"iris"}, "X", "cell20"),
                        Assign({"train_test_split", "X"}, "X_train", "cell20"),
                        Assign({"LogisticRegression", "X_train"},
                               "log_reg", "cell20"),
                        Use({"np", "log_reg"}),
                        Use({"plt", "X_train"})>>
         [] c = 23 -> <<Assign({"iris"}, "X", "cell23"),
                        Assign({"train_test_split", "X"}, "X_train", "cell23"),
                        Assign({"LogisticRegression", "X_train"},
                               "softmax_reg", "bound")>>
         [] c \in {24, 25} -> <<Use({"softmax_reg"})>>
         [] c = 26 -> <<Use({"np"}),
                        Use({"softmax_reg"}),
                        Use({"plt"}),
                        SecondColumn({"X"})>>]

\* a statement that binds nothing
BindNothing(n, binds) == n

\* the namespace after the bindings of a statement
Bind(n, binds) ==
    [k \in Names |->
       IF \E b \in binds : b[1] = k
       THEN (CHOOSE b \in binds : b[1] = k)[2]
       ELSE n[k]]

\* the statements of a cell, one after the other, up to the first that raises
RECURSIVE RunStatements(_, _)
RunStatements(st, stmts) ==
    IF stmts = <<>>
    THEN [st EXCEPT !.outcome = "ok"]
    ELSE LET s == Head(stmts)
         IN  IF \E k \in s.reads : st.ns[k] = "unbound"
             THEN [st EXCEPT !.outcome = "NameError"]
             ELSE IF \E r \in s.rejects : st.ns[r[1]] = r[2]
             THEN [st EXCEPT !.outcome = s.raises]
             ELSE RunStatements(
                      [ns |-> Bind(st.ns, s.binds),
                       defn |-> IF s.defines = "" THEN st.defn ELSE s.defines,
                       outcome |-> ""],
                      Tail(stmts))

\* run cell c in the kernel
RunCell(c) ==
    /\ pc \in {"idle", "done"}
    /\ LET r == RunStatements([ns |-> ns, defn |-> defn, outcome |-> ""],
                              Cells[c])
       IN  /\ ns' = r.ns
           /\ defn' = r.defn
           /\ cell_result' = [cell |-> c, outcome |-> r.outcome]
    /\ order' = IF order = Position(c) - 1 THEN Position(c) ELSE -1
    /\ UNCHANGED <<pc, frame, memo>>

NextCells == \E c \in CodeCells : RunCell(c)

SpecCells == Init /\ [][NextCells]_vars

---------------------------------------------------------------------------
(* Calls of the general tracer with float arguments that are not finite.   *)

MaxFloatSteps == 3

FloatStarts == {Inf, NegInf, NaN, Zero, Dec(8, 0)}

FloatRates == {Inf, NaN, Zero, Dec(1, 1), Dec(-1, 0)}

FloatSteps == 0..MaxFloatSteps

\* gradient_descent_update(s, lr, g, n) with float arguments
CallFloat(s, lr, g, n) ==
    /\ pc \in {"idle", "done"}
    /\ Enter(s, lr, g, n)
    /\ UNCHANGED memo

NextFloat ==
    \/ \E s \in FloatStarts, lr \in FloatRates, g \in GradientFuncs,
          n \in FloatSteps : CallFloat(s, lr, g, n)
    \/ IterateGeneral
    \/ Return

SpecFloat == InitLimit /\ [][NextFloat]_vars

---------------------------------------------------------------------------
(* Properties.                                                             *)

One == Dec(1, 0)

\* the last call ran the general definition
IsGeneral == gradient_func \in GradientFuncs

\* the gradient functions of the form g(x) = k*x, and their k
LinearFuncs == {"shallow_gradient", "steep_gradient", "neg_gradient"}

Slope(g) ==
    CASE g = "shallow_gradient" -> Dec(1, 1)
      [] g = "steep_gradient"   -> Dec(2, 0)
      [] g = "neg_gradient"     -> Dec(-1, 0)

\* 0 < r*k < 2
Contracting(r, k) ==
    /\ Less(Zero, Mul(r, k))
    /\ Less(Mul(r, k), Dec(2, 0))

\* C1: the array returned by the general tracer for a non-negative step
\* count starts with the start value, and each element i in 1..steps is
\* element[i-1] - learning_rate * g(element[i-1]).
C1_UpdateRule ==
    (pc = "done" /\ IsGeneral /\ steps >= 0) =>
        /\ Len(result) >= steps + 1
        /\ result[1] = start0
        /\ \A i \in 1..steps :
              result[i + 1] =
                  Sub(result[i],
                      Mul(learning_rate, CallGradient(gradient_func, result[i])))

C1_Witness ==
    /\ pc = "done" /\ IsGeneral /\ steps >= 3
    /\ gradient_func = "shifted_gradient"
    /\ learning_rate = Dec(1, 1)
    /\ start0 = Dec(8, 0)
    /\ result[2] = Dec(7, 0)
    /\ result[3] = Dec(62, 1)

\* C2: for a non-negative step count the returned array has steps + 1
\* elements, and during the loop the recorded path has one element more
\* than the number of passes completed.
C2_Length ==
    /\ pc = "loop" => Len(path) = it + 1
    /\ (pc = "done" /\ steps >= 0) => Len(result) = steps + 1

C2_Witness ==
    /\ pc = "done" /\ IsGeneral /\ steps = 3 /\ Len(result) = 4

\* C3: for g(x) = k*x, learning rate r and start x0, element i of the
\* returned array is x0 * (1 - r*k)^i, for every i from 0 to steps.
C3_ClosedForm ==
    (pc = "done" /\ gradient_func \in LinearFuncs) =>
        \A i \in 0..(Len(result) - 1) :
            result[i + 1] =
                Mul(start0,
                    Pow(Sub(One, Mul(learning_rate, Slope(gradient_func))), i))

C3_Witness ==
    /\ pc = "done" /\ gradient_func = "steep_gradient" /\ steps >= 3
    /\ learning_rate = Dec(1, 1) /\ start0 = Dec(-25, 1)
    /\ result[4] = Dec(-128, 2)

\* C4: with steps = 0 the general tracer makes no update, never evaluates
\* the gradient function, and returns exactly [x0].
C4_ZeroSteps ==
    (pc = "done" /\ IsGeneral /\ steps = 0) =>
        /\ result = <<start0>>
        /\ grad_calls = 0
        /\ x = start
        /\ heap = <<start0>>

C4_Witness ==
    /\ pc = "done" /\ IsGeneral /\ steps = 0
    /\ start0 = Dec(8, 0) /\ learning_rate = Dec(1, 1)
    /\ result = <<Dec(8, 0)>>

\* C5: with learning rate 0 every recorded and every returned element
\* equals the start value, whatever the gradient function and step count.
C5_ZeroRate ==
    (IsGeneral /\ learning_rate = Zero) =>
        /\ pc = "loop" => \A j \in 1..Len(path) : heap[path[j]] = start0
        /\ pc = "done" => \A j \in 1..Len(result) : result[j] = start0

C5_Witness ==
    /\ pc = "done" /\ IsGeneral /\ learning_rate = Zero
    /\ gradient_func = "shifted_gradient" /\ start0 = Dec(8, 0)
    /\ steps >= 3 /\ grad_calls = steps
    /\ result[4] = Dec(8, 0)

Tol(d) == Dec(1, d)

C9_Shallow ==
    (/\ pc = "done" /\ gradient_func = "shallow_gradient"
     /\ start0 = Dec(8, 0) /\ learning_rate = Dec(1, 1) /\ steps = 10) =>
        /\ Len(result) = 11
        /\ result[11] = Mul(Dec(8, 0), Pow(Dec(99, 2), 10))
        /\ Leq(Dec(7235, 3), result[11]) /\ Less(result[11], Dec(7245, 3))
        /\ \A i \in 1..11 : result[i].sgn = 1
        /\ \A i \in 1..10 : Less(result[i + 1], result[i])

C9_Witness ==
    /\ pc = "done" /\ gradient_func = "shallow_gradient"
    /\ start0 = Dec(8, 0) /\ learning_rate = Dec(1, 1) /\ steps = 10
    /\ result[2] = Dec(792, 2)
    /\ result[11] # result[10]

\* C10: a call has no side effects: from its entry to its return the
\* caller's start object keeps its value, the arguments and the binding of
\* the function are not changed, the elements already recorded in the path
\* keep their values, and the first element returned is the original start.
C10_NoSideEffects ==
    /\ [](pc # "idle" => (start_point = 1 /\ heap[start_point] = start0))
    /\ [][pc = "loop" =>
            /\ start_point' = start_point
            /\ heap'[start_point] = heap[start_point]
            /\ start0' = start0
            /\ learning_rate' = learning_rate
            /\ gradient_func' = gradient_func
            /\ steps' = steps
            /\ defn' = defn
            /\ \A j \in 1..Len(path) :
                  path'[j] = path[j] /\ heap'[path[j]] = heap[path[j]]
            /\ pc' = "done" => result'[1] = heap[start_point]]_vars

C10_Witness ==
    /\ pc = "done" /\ IsGeneral /\ steps >= 3
    /\ start0 = Dec(8, 0) /\ heap[start_point] = Dec(8, 0)
    /\ x # start /\ heap[x] # start0
    /\ result[1] = Dec(8, 0)


\* a call has returned whose arguments are those of the kept call
SameCall ==
    /\ pc = "done"
    /\ memo.result # <<>>
    /\ SameArguments(memo, start0, learning_rate, gradient_func, steps)

\* C11: two invocations of the tracer with equal start, learning rate,
\* gradient function and step count return equal arrays, whatever calls
\* ran before or between them: the result depends on the arguments only.
C11_Deterministic ==
    SameCall => result = memo.result

C11_Witness ==
    /\ SameCall
    /\ memo.between = {"same", "other"}
    /\ IsGeneral
    /\ Len(result) = MaxHistSteps + 1
    /\ result[1] # result[2]


\* the cells that import or bind every name they read
SelfContained == {2, 6, 11}

\* C12 as stated: every code cell succeeds from a fresh namespace and after
\* any sequence of other cells.
C12_Independent ==
    cell_result.outcome \in {"none", "ok"}

\* C12, amended: the cells share the kernel namespace.  Cells 2, 6 and 11
\* succeed from a fresh namespace and after any sequence of cells; every
\* cell succeeds when the cells are run top to bottom from a fresh kernel;
\* every other cell run first in a fresh kernel raises NameError.
C12_SharedNamespace ==
    /\ [](/\ cell_result.cell \in SelfContained => cell_result.outcome = "ok"
          /\ order >= 1 => cell_result.outcome = "ok")
    /\ [][(/\ ns = FreshNamespace
           /\ cell_result = NoCell
           /\ cell_result'.cell \in CodeCells \ SelfContained)
          => cell_result'.outcome = "NameError"]_vars

C12_Witness ==
    /\ order = Cardinality(CodeCells)
    /\ cell_result.cell = 26
    /\ cell_result.outcome = "ok"
    /\ defn = "quadratic"
    /\ ns["log_reg"] = "cell20"


\* C13: when the start or an element of the trajectory is not finite (+inf,
\* -inf, NaN), every later element of the returned array is not finite
\* either, and the array still has steps + 1 elements; the arithmetic is
\* total on these values, so no call stops before it returns.
C13_NonFinitePropagates ==
    /\ (pc = "done" /\ steps >= 0) =>
          /\ Len(result) = steps + 1
          /\ \A i \in 1..Len(result) : \A j \in i..Len(result) :
                ~IsFinite(result[i]) => ~IsFinite(result[j])
    /\ pc = "loop" =>
          /\ Len(path) = it + 1
          /\ \A i \in 1..Len(path) : \A j \in i..Len(path) :
                ~IsFinite(heap[path[i]]) => ~IsFinite(heap[path[j]])

C13_Witness ==
    /\ pc = "done"
    /\ steps = MaxFloatSteps
    /\ IsFinite(result[1])
    /\ result[2] = Inf
    /\ result[3] = NaN
    /\ result[4] = NaN


\* the kept call and the returned call are one of each definition, with
\* steep_gradient passed to the general one, and agree on the other arguments
BothVariants ==
    /\ pc = "done"
    /\ memo.result # <<>>
    /\ {memo.gradient_func, gradient_func} = {"none", "steep_gradient"}
    /\ memo.start = start0
    /\ memo.learning_rate = learning_rate
    /\ memo.steps = steps

\* C14: for every start, learning rate and step count the fixed-quadratic
\* definition returns the same array, element by element, as the general
\* definition called with steep_gradient.
C14_VariantsAgree ==
    BothVariants =>
        /\ Len(result) = Len(memo.result)
        /\ \A i \in 1..Len(result) : result[i] = memo.result[i]

C14_Witness ==
    /\ BothVariants
    /\ gradient_func = "none"
    /\ defn = "quadratic"
    /\ learning_rate = Dec(95, 2)
    /\ Len(result) = MaxHistSteps + 1
    /\ result[2] # result[3]


\* C15: a call with a negative step count never enters the loop body: it
\* evaluates no gradient, and returns exactly the one-element array [start],
\* whose length is not steps + 1.
C15_NegativeSteps ==
    /\ (pc = "loop" /\ steps < 0) =>
          /\ ~RangeHasNext(it, steps)
          /\ it = 0
          /\ grad_calls = 0
          /\ path = <<start>>
    /\ (pc = "done" /\ steps < 0) =>
          /\ result = <<start0>>
          /\ it = 0
          /\ grad_calls = 0
          /\ Len(result) = 1
          /\ Len(result) # steps + 1

C15_Witness ==
    /\ pc = "done"
    /\ steps = 0 - MaxNegSteps
    /\ IsGeneral
    /\ start0 = Dec(8, 0)
    /\ result = <<Dec(8, 0)>>

====
